---- MODULE Spec2Model ----
(***************************************************************************)
(* Vision capture service: the camera controller (CameraService), its     *)
(* capture endpoint, the MJPEG frame iterator, the bounded image store    *)
(* and the WebSocket connection hub (WebSocketManager).                    *)
(*                                                                         *)
(* Scheduling.  Every `async def` runs on the single asyncio event loop:   *)
(* a coroutine keeps the loop until it reaches an await that suspends.     *)
(* The variable `loop` names the coroutine that holds the loop.  The MJPEG *)
(* iterator is a blocking generator driven from a worker thread, so its    *)
(* steps interleave freely with whatever holds the loop.                   *)
(***************************************************************************)
EXTENDS Integers, Sequences, FiniteSets, TLC

\* ------------------------------------------------------------- bounds
MaxAttempts == 3        \* capture attempts the statistics count in one run
MaxTicks == 1           \* advances of the wall clock in one run
MaxLimitCfg == 2        \* largest configured CAPTURE_IN_MEMORY_LIMIT
FrameInterval == 2      \* 1/max_fps of a throttled stream, in clock ticks
MaxPerf == 6            \* largest reading of time.perf_counter(), in ticks
MaxBeatTasks == 2       \* heartbeat tasks created in one run
MaxStopCalls == 1       \* stop_heartbeat() calls suspended on one task
MaxWindow == 2          \* capture durations the statistics keep (100 in the service)

\* ---------------------------------------------------- program constants
SecondsPerHour == 3600
MAX_CAPTURE_AGE_HOURS == 24

Reqs == {"r1", "r2"}            \* concurrently served POST /capture/image requests
Streams == {"s1", "s2"}         \* concurrently served MJPEG streams
Samples == {"A", "B"}           \* sample_no values
NoTask == "none"
Conns == {"w1", "w2", "w3"}     \* WebSocket objects, each served by one endpoint
Casts == {"b1"}                 \* broadcast() calls in flight
NoConn == "none"
BeatTasks == 1..MaxBeatTasks    \* the heartbeat tasks, in order of creation
BeatConns == {"w1", "w2"}       \* the connections served beside the heartbeat
ShutConns == {"w1"}             \* the connections served up to the shutdown

VARIABLES
    backend,          \* settings.CAMERA_BACKEND: "opencv" | "pylon"
    persist,          \* self.persist_images
    limit,            \* self._in_memory_limit
    camera,           \* self.camera: "none" | "open" | "unopened"
    grabbing,         \* pylon camera.IsGrabbing()
    is_initialized,
    is_capturing,
    is_streaming,
    stats,            \* self._capture_stats: total / successful / failed /
                      \* capture_times, each duration named by its capture
    last_capture_time, \* self.last_capture_time: clock value, -1 for None
    report,           \* what the last status or statistics query returned
    cache,            \* self._image_cache, in OrderedDict order (oldest first)
    disk,             \* *.jpg files of capture_dir: set of [name, mtime]
    clock,            \* wall clock, seconds
    ticks,            \* clock advances so far
    loop,             \* the coroutine holding the event loop, or NoTask
    pc,               \* position of each capture request's handler
    req,              \* per request: sample, grab mode, result, ghosts
    spc,              \* position of each stream generator
    useOrder,         \* ghost: cached names by last insert/retrieval, oldest first
    lastEvicted,      \* ghost: names the last insertion into the cache evicted
    lastSweep,        \* the last cleanup_captures(h) call: the count it returned,
                      \* ghost: the file whose stat() or unlink() raised
    perf,             \* time.perf_counter(), in ticks
    min_interval,     \* per stream: 1/max_fps in ticks, 0 for None
    last_sent,        \* per stream: perf_counter() at the last yielded frame
    stopIssued        \* ghost: running streams a stop has been signalled to

VARIABLES
    active_connections,   \* WebSocketManager.active_connections, a list
    connection_metadata,  \* key set of WebSocketManager.connection_metadata
    client_state,         \* websocket.client_state of each WebSocket
    sendFails,            \* the transport is broken: send_text() raises
    wpc,                  \* position of each WebSocket's endpoint
    bpc,                  \* position of each broadcast() call
    connections,          \* the list copied at the start of each broadcast
    idx,                  \* index the broadcast's for loop has reached
    connection,           \* the connection whose send_text() is awaited
    got,                  \* ghost: deliveries of each broadcast per connection
    raised                \* ghost: connections whose send raised, per broadcast

VARIABLES
    heartbeat_task,       \* WebSocketManager.heartbeat_task: a task, 0 for None
    hbState,              \* each heartbeat task: unborn, sleep, send or done
    hbCancel,             \* each heartbeat task: cancel() has been called
    hbList,               \* each heartbeat task: the list copied for its round
    hbIdx,                \* each heartbeat task: index its round has reached
    hbRemove,             \* each heartbeat task: connections_to_remove
    stopWait,             \* stop_heartbeat() calls suspended awaiting each task
    beat                  \* ghost: flips at every heartbeat sent to a connection

beatVars == <<heartbeat_task, hbState, hbCancel, hbList, hbIdx, hbRemove,
              stopWait, beat>>

VARIABLES
    hpc,                  \* cleanup() of the hub: idle, stopping, closing or done
    closeList,            \* cleanup(): the list copied for its closing loop
    closeIdx              \* cleanup(): index its closing loop has reached

shutVars == <<hpc, closeList, closeIdx>>

hubVars == <<active_connections, connection_metadata, client_state, sendFails,
             wpc, bpc, connections, idx, connection, got, raised, beatVars,
             shutVars>>

camVars == <<backend, persist, limit, camera, grabbing, is_initialized,
             is_capturing, is_streaming, stats, last_capture_time, report,
             cache, disk, clock, ticks,
             loop, pc, req, spc, useOrder, lastEvicted,
             lastSweep, perf, min_interval, last_sent, stopIssued>>

frameVars == <<perf, min_interval, last_sent>>
strmVars == <<frameVars, stopIssued>>

vars == <<camVars, hubVars>>

\* ------------------------------------------------------------ helpers

Max(a, b) == IF a >= b THEN a ELSE b

\* Names held by the in-memory cache.
CacheNames(c) == {c[i].name : i \in 1..Len(c)}

\* A sequence without the entries named n.
RECURSIVE WithoutName(_, _)
WithoutName(s, n) ==
    IF s = <<>> THEN <<>>
    ELSE IF Head(s).name = n THEN WithoutName(Tail(s), n)
         ELSE <<Head(s)>> \o WithoutName(Tail(s), n)

RECURSIVE Without(_, _)
Without(s, n) ==
    IF s = <<>> THEN <<>>
    ELSE IF Head(s) = n THEN Without(Tail(s), n)
         ELSE <<Head(s)>> \o Without(Tail(s), n)

\* ------------------------------------------------------- image store

\* self._image_cache[filename] = {...}: a new key is appended, an existing
\* key keeps its place and takes the new value.
SetItem(c, e) ==
    IF e.name \in CacheNames(c)
    THEN [i \in 1..Len(c) |-> IF c[i].name = e.name THEN e ELSE c[i]]
    ELSE Append(c, e)

\* OrderedDict.move_to_end(name).
MoveToEnd(c, n) ==
    LET hit == SelectSeq(c, LAMBDA x : x.name = n)
    IN  WithoutName(c, n) \o hit

\* A trim that stops one entry early (variant).
RECURSIVE TrimCache_OffByOne(_, _)
TrimCache_OffByOne(c, lim) ==
    IF Len(c) > lim + 1 THEN TrimCache_OffByOne(Tail(c), lim) ELSE c

\* while len(cache) > limit: cache.popitem(last=False)
RECURSIVE TrimCache(_, _)
TrimCache(c, lim) ==
    IF Len(c) > lim THEN TrimCache(Tail(c), lim) ELSE c

\* The memory branch of capture_image: insert, move to the end, trim.
StoreInCache(c, e, lim) == TrimCache(MoveToEnd(SetItem(c, e), e.name), lim)

\* cv2.imwrite(file_path): creates or overwrites the file.
WriteFile(d, n, t) == {f \in d : f.name # n} \cup {[name |-> n, mtime |-> t]}

\* Cache entries / files that cleanup_captures(h) treats as too old at time t.
Cutoff(t, h) == t - h * SecondsPerHour
OldEntries(c, t, h) == {c[i].name : i \in {j \in 1..Len(c) : c[j].at < Cutoff(t, h)}}
OldFiles(d, t, h) == {f \in d : f.mtime < Cutoff(t, h)}

\* The ghost order of last use: a name that is inserted or retrieved moves to
\* the end; names that left the cache are dropped.
Touch(u, n) == Without(u, n) \o <<n>>
RECURSIVE Restrict(_, _)
Restrict(u, keep) ==
    IF u = <<>> THEN <<>>
    ELSE IF Head(u) \in keep THEN <<Head(u)>> \o Restrict(Tail(u), keep)
         ELSE Restrict(Tail(u), keep)

\* ------------------------------------------------------- scheduling

\* A capture_image that awaited its grab (variant).
CaptureAwaits_Grab == {"c_grab"}

\* The program points of capture_image at which the coroutine suspends and
\* hands the event loop to other coroutines: the body holds no await.
CaptureAwaits == {}

LoopFree == loop = NoTask
Runs(r, label) == IF label \in CaptureAwaits THEN loop = NoTask ELSE loop = r
Hold(r, label) == IF label \in CaptureAwaits THEN NoTask ELSE r

\* The DeviceState of the specification, read off the controller's flags.
\* Closed and Uninitialized are the same flags; Initializing is never
\* observable, initialize() holding the loop from start to end.
DeviceState ==
    IF ~is_initialized \/ camera = "none" THEN "Uninitialized"
    ELSE IF is_capturing THEN "Capturing"
    ELSE IF is_streaming THEN "Streaming"
    ELSE "Ready"

Failures == {"NotInitialized", "AlreadyCapturing", "GrabFailed", "BaslerError",
             "PersistFailed", "EncodeFailed", "Exception"}

\* ------------------------------------------------------------- Init

NewReq == [sample |-> "A", mode |-> "none", result |-> "none",
           overlapped |-> FALSE]

Init ==
    /\ backend \in {"opencv", "pylon"}
    /\ persist \in BOOLEAN
    /\ limit \in {Max(1, n) : n \in 0..MaxLimitCfg}
    /\ camera = "none"
    /\ grabbing = FALSE
    /\ is_initialized = FALSE
    /\ is_capturing = FALSE
    /\ is_streaming = FALSE
    /\ stats = [total |-> 0, successful |-> 0, failed |-> 0,
                capture_times |-> <<>>]
    /\ last_capture_time = -1
    /\ report = [kind |-> "none"]
    /\ cache = <<>>
    /\ disk = {}
    /\ clock = 0
    /\ ticks = 0
    /\ loop = NoTask
    /\ pc = [r \in Reqs |-> "idle"]
    /\ req = [r \in Reqs |-> NewReq]
    /\ spc = [s \in Streams |-> "idle"]
    /\ useOrder = <<>>
    /\ lastEvicted = {}
    /\ lastSweep = [returned |-> 0, failed |-> {}]
    /\ perf = FrameInterval
    /\ min_interval = [s \in Streams |-> 0]
    /\ last_sent = [s \in Streams |-> 0]
    /\ stopIssued = {}
    /\ active_connections = <<>>
    /\ connection_metadata = {}
    /\ client_state = [c \in Conns |-> "CONNECTING"]
    /\ sendFails = [c \in Conns |-> FALSE]
    /\ wpc = [c \in Conns |-> "new"]
    /\ bpc = [b \in Casts |-> "idle"]
    /\ connections = [b \in Casts |-> <<>>]
    /\ idx = [b \in Casts |-> 0]
    /\ connection = [b \in Casts |-> NoConn]
    /\ got = [b \in Casts |-> [c \in Conns |-> 0]]
    /\ raised = [b \in Casts |-> {}]
    /\ heartbeat_task = 0
    /\ hbState = [t \in BeatTasks |-> "unborn"]
    /\ hbCancel = [t \in BeatTasks |-> FALSE]
    /\ hbList = [t \in BeatTasks |-> <<>>]
    /\ hbIdx = [t \in BeatTasks |-> 0]
    /\ hbRemove = [t \in BeatTasks |-> {}]
    /\ stopWait = [t \in BeatTasks |-> 0]
    /\ beat = [c \in Conns |-> 0]
    /\ hpc = "idle"
    /\ closeList = <<>>
    /\ closeIdx = 0

\* --------------------------------------------------- CameraService

devVars == <<camera, grabbing, is_initialized>>
cfgVars == <<backend, persist, limit>>
statVars == <<stats, last_capture_time>>
storeVars == <<cache, disk, useOrder, lastEvicted, lastSweep>>
timeVars == <<clock, ticks>>
reqVars == <<pc, req>>

\* The ways initialize() ends: True, or False because no device matched or
\* opened, or False from its exception handler.
InitOutcomes == {"ok", "absent", "raise_early", "raise_open"}

\* initialize() ending with `out`: runs to its end without suspending.
InitializeOutcome(out) ==
    /\ LoopFree
    /\  \/ /\ out = "ok"
           /\ camera' = "open"
           /\ grabbing' = FALSE
           /\ is_initialized' = TRUE
        \/ /\ out = "absent"
           \* pylon: no device matched, return False.  opencv: the new
           \* VideoCapture is not opened, return False.
           /\ camera' = IF backend = "pylon" THEN camera ELSE "unopened"
           /\ UNCHANGED <<grabbing, is_initialized>>
        \/ /\ out = "raise_early"
           \* the exception comes before self.camera is assigned
           /\ is_initialized' = FALSE
           /\ UNCHANGED <<camera, grabbing>>
        \/ /\ out = "raise_open"
           \* pylon: InstantCamera created, Open() raises
           /\ backend = "pylon"
           /\ camera' = "unopened"
           /\ grabbing' = FALSE
           /\ is_initialized' = FALSE
    /\ UNCHANGED <<hubVars, cfgVars, report, strmVars, is_capturing, is_streaming, statVars, storeVars,
                   timeVars, loop, reqVars, spc>>

Initialize == \E out \in InitOutcomes : InitializeOutcome(out)

\* Without the finally clause only the early returns clear the flag (variant).
AfterCapture_NoFinally(path) == path \in {"success", "exception"}

\* The value of is_capturing when capture_image returns through `path`:
\* the early returns clear it, and the finally clause clears it on all.
AfterCapture(path) == FALSE

\* The requests whose handler has started and has not answered yet.
InFlight == {q \in Reqs : pc[q] \in {"h_progress", "c_select", "c_grab", "c_store", "h_result"}}

\* capture.py capture_image: the request is accepted and the 'starting'
\* progress event is broadcast; the handler is suspended in the broadcast.
HandlerStart(r, s) ==
    /\ LoopFree
    /\ pc[r] = "idle"
    /\ stats.successful + stats.failed + Cardinality(InFlight) < MaxAttempts
    /\ req' = [req EXCEPT ![r] = [NewReq EXCEPT
                    !.sample = s,
                    !.overlapped = InFlight # {}]]
    /\ pc' = [pc EXCEPT ![r] = "h_progress"]
    /\ UNCHANGED <<hubVars, cfgVars, report, strmVars, devVars, is_capturing, is_streaming, statVars,
                   storeVars, timeVars, loop, spc>>

\* A guard that tests the handle only (variant).
NotInitialized_HandleOnly == camera = "none"

\* Line 206: `if not self.is_initialized or self.camera is None`.
NotInitialized == ~is_initialized \/ camera = "none"

\* capture_image, lines 206-213: the two guards, then the flag is set.
CaptureEnter(r) ==
    /\ LoopFree
    /\ pc[r] = "h_progress"
    /\ IF NotInitialized
       THEN /\ req' = [req EXCEPT ![r].result = "NotInitialized"]
            /\ pc' = [pc EXCEPT ![r] = "h_result"]
            /\ UNCHANGED <<is_capturing, loop>>
       ELSE IF is_capturing
       THEN /\ req' = [req EXCEPT ![r].result = "AlreadyCapturing"]
            /\ pc' = [pc EXCEPT ![r] = "h_result"]
            /\ UNCHANGED <<is_capturing, loop>>
       ELSE /\ is_capturing' = TRUE
            /\ UNCHANGED req
            /\ pc' = [pc EXCEPT ![r] = "c_select"]
            /\ loop' = Hold(r, "c_select")
    /\ UNCHANGED <<hubVars, cfgVars, report, strmVars, devVars, is_streaming, statVars, storeVars,
                   timeVars, spc>>

\* Lines 219-252: the grab is chosen and issued.  On pylon the choice reads
\* camera.IsGrabbing().
CaptureSelect(r) ==
    /\ pc[r] = "c_select"
    /\ Runs(r, "c_select")
    /\ req' = [req EXCEPT
                 ![r].mode = IF backend = "pylon"
                             THEN (IF grabbing THEN "retrieve" ELSE "grabone")
                             ELSE "read"]
    /\ pc' = [pc EXCEPT ![r] = "c_grab"]
    /\ loop' = Hold(r, "c_grab")
    /\ UNCHANGED <<hubVars, cfgVars, report, strmVars, devVars, is_capturing, is_streaming, statVars,
                   storeVars, timeVars, spc>>

\* Lines 331-332: `capture_times[-100:]` once the list is longer than the
\* window.
KeepLast_Oldest(s, n) == IF Len(s) > n THEN SubSeq(s, 1, n) ELSE s
KeepLast(s, n) == IF Len(s) > n THEN SubSeq(s, Len(s) - n + 1, Len(s)) ELSE s

\* The grab returns: a frame, no frame, or an exception.
CaptureGrabEnd(r) ==
    /\ pc[r] = "c_grab"
    /\ Runs(r, "c_grab")
    /\ \E out \in {"frame", "none", "raise"} :
        \/ /\ out = "frame"
           /\ camera = "open"
           /\ pc' = [pc EXCEPT ![r] = "c_store"]
           /\ loop' = Hold(r, "c_store")
           /\ UNCHANGED <<req, is_capturing, stats>>
        \/ /\ out = "none"
           /\ req' = [req EXCEPT ![r].result = "GrabFailed"]
           /\ is_capturing' = AfterCapture("grab_fail")
           /\ pc' = [pc EXCEPT ![r] = "h_result"]
           /\ loop' = NoTask
           /\ UNCHANGED stats
        \/ /\ out = "raise"
           /\ IF backend = "pylon"
              THEN \* lines 248-250: caught by the inner handler
                   /\ req' = [req EXCEPT ![r].result = "BaslerError"]
                   /\ is_capturing' = AfterCapture("basler_exc")
                   /\ UNCHANGED stats
              ELSE \* lines 340-343: caught by the outer handler
                   /\ req' = [req EXCEPT ![r].result = "Exception"]
                   /\ is_capturing' = AfterCapture("exception")
                   /\ stats' = [stats EXCEPT !.failed = @ + 1]
           /\ pc' = [pc EXCEPT ![r] = "h_result"]
           /\ loop' = NoTask
    /\ UNCHANGED <<hubVars, cfgVars, report, strmVars, devVars, is_streaming, storeVars, timeVars, spc,
                   last_capture_time>>

\* Lines 266-346: the file name, the encode and the store, the statistics.
CaptureStore(r) ==
    /\ pc[r] = "c_store"
    /\ Runs(r, "c_store")
    /\ LET n == <<req[r].sample, clock>>
           e == [name |-> n, at |-> clock]
       IN \E out \in {"ok", "fail", "raise"} :
        \/ /\ out = "ok"
           /\ IF persist
              THEN /\ disk' = WriteFile(disk, n, clock)
                   /\ UNCHANGED <<cache, useOrder, lastEvicted>>
              ELSE /\ cache' = StoreInCache(cache, e, limit)
                   /\ useOrder' = Restrict(Touch(useOrder, n), CacheNames(cache'))
                   /\ lastEvicted' = (CacheNames(cache) \cup {n}) \ CacheNames(cache')
                   /\ UNCHANGED disk
           /\ stats' = [stats EXCEPT
                  !.total = @ + 1,
                  !.successful = @ + 1,
                  !.capture_times = KeepLast(Append(@, stats.total + 1), MaxWindow)]
           /\ last_capture_time' = clock
           /\ req' = [req EXCEPT ![r].result = "ok"]
           /\ is_capturing' = AfterCapture("success")
        \/ /\ out = "fail"
           /\ req' = [req EXCEPT ![r].result =
                        IF persist THEN "PersistFailed" ELSE "EncodeFailed"]
           /\ is_capturing' = AfterCapture(IF persist THEN "persist_fail"
                                                      ELSE "encode_fail")
           /\ UNCHANGED <<statVars, cache, disk, useOrder, lastEvicted>>
        \/ /\ out = "raise"
           /\ req' = [req EXCEPT ![r].result = "Exception"]
           /\ is_capturing' = AfterCapture("exception")
           /\ stats' = [stats EXCEPT !.failed = @ + 1]
           /\ UNCHANGED <<last_capture_time, cache, disk, useOrder, lastEvicted>>
    /\ pc' = [pc EXCEPT ![r] = "h_result"]
    /\ loop' = NoTask
    /\ UNCHANGED <<hubVars, cfgVars, report, strmVars, devVars, is_streaming, lastSweep, timeVars,
                   spc>>

\* cleanup_captures(h).  Memory mode removes every entry older than the
\* cutoff.  Disk mode walks capture_dir.glob("*.jpg") inside one try block:
\* the first stat() or unlink() that raises ends the walk, and the files the
\* directory order had put before it have been handled.  An outcome names
\* what the call removes and the file that raised, if one did.
MemorySweeps(h) == {[removed |-> OldEntries(cache, clock, h), failed |-> {}]}

DiskSweeps(h) ==
    {[removed |-> OldFiles(disk, clock, h), failed |-> {}]}
        \cup UNION {{[removed |-> OldFiles(before, clock, h), failed |-> {f}] :
                        before \in SUBSET (disk \ {f})} : f \in disk}

Sweeps(h) == IF persist THEN DiskSweeps(h) ELSE MemorySweeps(h)

Sweep(o) ==
    IF persist
    THEN /\ disk' = disk \ o.removed
         /\ UNCHANGED <<cache, useOrder>>
    ELSE /\ cache' = SelectSeq(cache, LAMBDA x : x.name \notin o.removed)
         /\ useOrder' = Restrict(useOrder, CacheNames(cache'))
         /\ UNCHANGED disk

\* str(e): the text of the exception that was caught.
ExceptionText == "str(e)"

\* The error_message capture_image returns with each result, as the parts
\* it is put together from.
ErrorMessage(result) ==
    CASE result = "NotInitialized" -> <<"Camera not initialized">>
      [] result = "AlreadyCapturing" -> <<"Capture already in progress">>
      [] result = "GrabFailed" -> <<"Failed to capture frame from camera">>
      [] result = "PersistFailed" -> <<"Failed to save image">>
      [] result = "EncodeFailed" -> <<"Failed to encode image">>
      [] result = "BaslerError" -> <<"Basler capture error: ", ExceptionText>>
      [] result = "Exception" -> <<ExceptionText>>
      [] OTHER -> <<>>

\* capture.py, lines 191-208: the message of the failed capture_result
\* broadcast and of the HTTP error detail, `error_message or "Image capture
\* failed"`.
FailureMessage(result) ==
    IF ErrorMessage(result) = <<>> THEN <<"Image capture failed">>
    ELSE ErrorMessage(result)

\* The capture_result message the handler hands to the hub, by the types of
\* the values it holds: a success carries image_data.dict(), whose
\* captured_at is a datetime object (schemas.py line 34); a failure carries
\* a flag and strings.
ResultMessage(result) ==
    [success |-> result = "ok",
     holds |-> IF result = "ok" THEN {"bool", "str", "int", "datetime"}
               ELSE {"bool", "str"}]

\* json.dumps(message) in send_personal_message (line 77): a datetime is not
\* JSON serializable and raises TypeError, which the handler there answers
\* with disconnect(websocket); nothing is sent.
JsonDumps(message) ==
    IF "datetime" \in message.holds THEN "TypeError" ELSE "text"

\* The HTTP status of the response to a capture request.
ResponseStatus(result) == IF result = "ok" THEN 200 ELSE 500

\* capture.py, lines 166-208: capture_image has returned, the result event
\* has been broadcast and the response goes out; a success schedules the
\* background cleanup.
HandlerResult(r) ==
    /\ LoopFree
    /\ pc[r] = "h_result"
    /\ pc' = [pc EXCEPT ![r] = IF req[r].result = "ok" THEN "h_bg" ELSE "idle"]
    /\ req' = [req EXCEPT ![r] = NewReq]
    /\ UNCHANGED <<hubVars, cfgVars, report, strmVars, devVars, is_capturing, is_streaming, statVars,
                   storeVars, timeVars, loop, spc>>

\* The background task: cleanup_captures(settings.MAX_CAPTURE_AGE_HOURS).
BackgroundCleanup(r) ==
    /\ LoopFree
    /\ pc[r] = "h_bg"
    /\ \E o \in Sweeps(MAX_CAPTURE_AGE_HOURS) : Sweep(o)
    /\ UNCHANGED <<lastSweep, lastEvicted>>
    /\ pc' = [pc EXCEPT ![r] = "idle"]
    /\ UNCHANGED <<hubVars, cfgVars, report, strmVars, devVars, is_capturing, is_streaming, statVars,
                   timeVars, loop, req, spc>>

\* cleanup_captures called with an explicit max_age_hours.
CleanupCaptures(h) ==
    /\ LoopFree
    /\ \E o \in Sweeps(h) :
        /\ Sweep(o)
        /\ lastSweep' = [returned |-> Cardinality(o.removed), failed |-> o.failed]
    /\ UNCHANGED lastEvicted
    /\ UNCHANGED <<hubVars, cfgVars, report, strmVars, devVars, is_capturing, is_streaming, statVars,
                   timeVars, loop, reqVars, spc>>

\* get_image_resource(filename): a lookup; the cache order is not touched.
GetImageResource(n) ==
    /\ LoopFree
    /\ useOrder' = IF ~persist /\ n \in CacheNames(cache)
                   THEN Touch(useOrder, n) ELSE useOrder
    /\ UNCHANGED <<hubVars, cfgVars, report, strmVars, devVars, is_capturing, is_streaming, statVars,
                   cache, disk, lastEvicted, lastSweep, timeVars, loop,
                   reqVars, spc>>

\* get_status(): a coroutine without an await.  camera.isOpened() exists on
\* the OpenCV handle only; on a pylon handle the call raises and the
\* handler of lines 176-185 answers.
GetStatus ==
    /\ LoopFree
    /\ LET raises == is_initialized /\ camera # "none" /\ backend = "pylon"
           is_connected == is_initialized /\ camera = "open"
       IN report' = [kind |-> "status",
                     is_connected |-> ~raises /\ is_connected,
                     is_capturing |-> ~raises /\ is_capturing,
                     last_capture |-> last_capture_time]
    /\ UNCHANGED <<hubVars, cfgVars, strmVars, devVars, is_capturing, is_streaming,
                   statVars, storeVars, timeVars, loop, reqVars, spc>>

\* get_capture_stats(): a coroutine without an await.  It fills a shallow
\* copy of the dictionary, whose capture_times is the list of the service.
GetCaptureStats ==
    /\ LoopFree
    /\ report' = [kind |-> "stats",
                  total_captures |-> stats.total,
                  successful_captures |-> stats.successful,
                  failed_captures |-> stats.failed,
                  capture_times |-> stats.capture_times,
                  storage_used |-> IF persist THEN Cardinality(disk) ELSE Len(cache),
                  last_capture_time |-> last_capture_time]
    /\ UNCHANGED <<hubVars, cfgVars, strmVars, devVars, is_capturing, is_streaming,
                   statVars, storeVars, timeVars, loop, reqVars, spc>>

\* The value get_image_resource(filename) returns: the file in persist
\* mode, the cached bytes in memory mode, None otherwise.
ImageResource(n) ==
    IF persist
    THEN IF n \in {f.name : f \in disk} THEN "file" ELSE "None"
    ELSE IF n \in CacheNames(cache) THEN "memory" ELSE "None"

\* GET /image/{filename}: the route looks for the file in the captures
\* directory and nowhere else; 404 when it is not there.
GetCapturedImage(n) == IF n \in {f.name : f \in disk} THEN 200 ELSE 404

\* The images the store retains: the files in persist mode, the cache
\* entries in memory mode.
Retained == IF persist THEN {f.name : f \in disk} ELSE CacheNames(cache)

\* The streams that have set is_streaming and not left their generator.  An
\* assignment is_streaming = False made outside the generators (by
\* stop_streaming() or by cleanup()) is a stop signal to each of them.
RunningStreams == {s \in Streams : spc[s] \notin {"idle", "s_flag"}}

\* cleanup(): camera.release() is issued when a handle is held.  The pylon
\* InstantCamera has no release(): the call raises and the handler only logs.
CleanupBegin ==
    /\ LoopFree
    /\ IF camera = "none"
       THEN /\ is_initialized' = FALSE
            /\ is_capturing' = FALSE
            /\ is_streaming' = FALSE
            /\ stopIssued' = stopIssued \cup RunningStreams
            /\ UNCHANGED loop
       ELSE /\ loop' = IF backend = "pylon" THEN "cleanup_raise" ELSE "cleanup"
            /\ UNCHANGED <<is_initialized, is_capturing, is_streaming,
                           stopIssued>>
    /\ UNCHANGED <<hubVars, cfgVars, report, frameVars, camera, grabbing, statVars, storeVars, timeVars,
                   reqVars, spc>>

CleanupEnd ==
    /\ loop = "cleanup"
    /\ camera' = "none"
    /\ is_initialized' = FALSE
    /\ is_capturing' = FALSE
    /\ is_streaming' = FALSE
    /\ stopIssued' = stopIssued \cup RunningStreams
    /\ loop' = NoTask
    /\ UNCHANGED <<hubVars, cfgVars, report, frameVars, grabbing, statVars, storeVars, timeVars,
                   reqVars, spc>>

\* cleanup(), lines 460-462: the release raised; the handler logs the error
\* and cleanup() returns, the statements after the release not executed.
CleanupRaise ==
    /\ loop = "cleanup_raise"
    /\ loop' = NoTask
    /\ UNCHANGED <<hubVars, cfgVars, report, strmVars, devVars, is_capturing, is_streaming, statVars,
                   storeVars, timeVars, reqVars, spc>>

\* test_camera(): one grab, holding the loop.
TestBegin ==
    /\ LoopFree
    /\ is_initialized /\ camera # "none"
    /\ loop' = "test"
    /\ UNCHANGED <<hubVars, cfgVars, report, strmVars, devVars, is_capturing, is_streaming, statVars,
                   storeVars, timeVars, reqVars, spc>>

TestEnd ==
    /\ loop = "test"
    /\ loop' = NoTask
    /\ UNCHANGED <<hubVars, cfgVars, report, strmVars, devVars, is_capturing, is_streaming, statVars,
                   storeVars, timeVars, reqVars, spc>>

\* stop_streaming()
StopStreaming ==
    /\ LoopFree
    /\ is_streaming' = FALSE
    /\ stopIssued' = stopIssued \cup RunningStreams
    /\ UNCHANGED <<hubVars, cfgVars, report, frameVars, devVars, is_capturing, statVars, storeVars, timeVars,
                   loop, reqVars, spc>>

\* ------------------------------------------- mjpeg_frame_iterator

\* The finally clause of the generator; its locals go with it.
StreamExit(s) ==
    /\ is_streaming' = FALSE
    /\ spc' = [spc EXCEPT ![s] = "idle"]
    /\ min_interval' = [min_interval EXCEPT ![s] = 0]
    /\ last_sent' = [last_sent EXCEPT ![s] = 0]
    /\ stopIssued' = stopIssued \ {s}

\* Line 480: the guard.  An uninitialized controller ends the generator.
\* `mi` is 1/max_fps, 0 when no max_fps is given.
StreamEnter(s, mi) ==
    /\ spc[s] = "idle"
    /\ is_initialized /\ camera # "none"
    /\ spc' = [spc EXCEPT ![s] = "s_flag"]
    /\ min_interval' = [min_interval EXCEPT ![s] = mi]
    /\ UNCHANGED <<hubVars, cfgVars, report, devVars, is_capturing, is_streaming, statVars,
                   storeVars, timeVars, loop, reqVars, perf, last_sent,
                   stopIssued>>

\* Lines 485-489: self.is_streaming = True, last_sent = 0.0.
StreamSetFlag(s) ==
    /\ spc[s] = "s_flag"
    /\ is_streaming' = TRUE
    /\ last_sent' = [last_sent EXCEPT ![s] = 0]
    /\ spc' = [spc EXCEPT ![s] = IF backend = "pylon" THEN "s_start" ELSE "s_loop"]
    /\ UNCHANGED <<hubVars, cfgVars, report, devVars, is_capturing, statVars, storeVars, timeVars,
                   loop, reqVars, perf, min_interval, stopIssued>>

\* Lines 494-499 (pylon): continuous grabbing is started unless it runs.
StreamStartBegin(s) ==
    /\ spc[s] = "s_start"
    /\ IF camera = "open"
       THEN /\ spc' = [spc EXCEPT ![s] = IF grabbing THEN "s_loop" ELSE "s_starting"]
            /\ UNCHANGED <<is_streaming, min_interval, last_sent, stopIssued>>
       ELSE StreamExit(s)
    /\ UNCHANGED <<hubVars, cfgVars, report, devVars, is_capturing, statVars, storeVars, timeVars,
                   loop, reqVars, perf>>

StreamStartEnd(s) ==
    /\ spc[s] = "s_starting"
    /\ grabbing' = (camera = "open")
    /\ spc' = [spc EXCEPT ![s] = "s_loop"]
    /\ UNCHANGED <<hubVars, cfgVars, report, camera, is_initialized, is_capturing, is_streaming,
                   statVars, storeVars, timeVars, loop, reqVars, strmVars>>

\* `while self.is_streaming:` and the frame read it guards.  Without a
\* handle the read raises: opencv leaves through the finally clause, pylon
\* catches and tests the flag again.
StreamLoop(s) ==
    /\ spc[s] = "s_loop"
    /\ IF ~is_streaming THEN StreamExit(s)
       ELSE IF camera = "none"
       THEN IF backend = "pylon"
            THEN UNCHANGED <<is_streaming, spc, min_interval, last_sent, stopIssued>>
            ELSE StreamExit(s)
       ELSE /\ spc' = [spc EXCEPT ![s] = "s_read"]
            /\ UNCHANGED <<is_streaming, min_interval, last_sent, stopIssued>>
    /\ UNCHANGED <<hubVars, cfgVars, report, devVars, is_capturing, statVars, storeVars, timeVars,
                   loop, reqVars, perf>>

\* `min_interval is not None and (now - last_sent) < min_interval`
TooEarly(s) == min_interval[s] > 0 /\ perf - last_sent[s] < min_interval[s]

\* The frame is encoded and yielded: last_sent = time.perf_counter().
StreamEmit(s) ==
    /\ last_sent' = [last_sent EXCEPT ![s] = perf]
    /\ spc' = [spc EXCEPT ![s] = "s_yield"]

\* The read returns nothing to yield (no frame, or the encode fails), or a
\* frame.  A frame that comes too early for max_fps is dropped on pylon
\* (line 530) and waited for on opencv (lines 562-563).
StreamReadEnd(s) ==
    /\ spc[s] = "s_read"
    /\ \E out \in {"frame", "none"} :
        /\ out = "frame" => camera = "open"
        /\ IF out = "none"
           THEN /\ spc' = [spc EXCEPT ![s] = "s_loop"]
                /\ UNCHANGED last_sent
           ELSE IF ~TooEarly(s) THEN StreamEmit(s)
           ELSE /\ spc' = [spc EXCEPT ![s] = IF backend = "pylon" THEN "s_loop"
                                                                   ELSE "s_sleep"]
                /\ UNCHANGED last_sent
    /\ UNCHANGED <<hubVars, cfgVars, report, devVars, is_capturing, is_streaming, statVars,
                   storeVars, timeVars, loop, reqVars, perf, min_interval,
                   stopIssued>>

\* opencv: time.sleep(min_interval - (now - last_sent)) is over.
StreamWake(s) ==
    /\ spc[s] = "s_sleep"
    /\ perf >= last_sent[s] + min_interval[s]
    /\ StreamEmit(s)
    /\ UNCHANGED <<hubVars, cfgVars, report, devVars, is_capturing, is_streaming, statVars,
                   storeVars, timeVars, loop, reqVars, perf, min_interval,
                   stopIssued>>

\* The consumer pulls the next frame.
StreamNext(s) ==
    /\ spc[s] = "s_yield"
    /\ spc' = [spc EXCEPT ![s] = "s_loop"]
    /\ UNCHANGED <<hubVars, cfgVars, report, devVars, is_capturing, is_streaming, statVars,
                   storeVars, timeVars, loop, reqVars, strmVars>>

\* The consumer closes the generator at the yield.
StreamClose(s) ==
    /\ spc[s] = "s_yield"
    /\ StreamExit(s)
    /\ UNCHANGED <<hubVars, cfgVars, report, devVars, is_capturing, statVars, storeVars, timeVars,
                   loop, reqVars, perf>>

\* time.perf_counter() moves on.
PerfTick ==
    /\ perf < MaxPerf
    /\ perf' = perf + 1
    /\ UNCHANGED <<hubVars, cfgVars, report, devVars, is_capturing, is_streaming, statVars,
                   storeVars, timeVars, loop, reqVars, spc, min_interval,
                   last_sent, stopIssued>>

\* -------------------------------------------------- WebSocketManager

Range(s) == {s[i] : i \in 1..Len(s)}

\* list.remove(x): the first occurrence goes.
RECURSIVE Remove(_, _)
Remove(s, x) ==
    IF s = <<>> THEN <<>>
    ELSE IF Head(s) = x THEN Tail(s)
         ELSE <<Head(s)>> \o Remove(Tail(s), x)

\* disconnect(websocket) on the list and on the metadata keys.
\* Removing without the membership test, a missing connection taking the
\* first one with it (variant).
DisconnectList_Unchecked(a, c) ==
    IF c \in Range(a) THEN Remove(a, c)
    ELSE IF a = <<>> THEN a ELSE Tail(a)

DisconnectList(a, c) == IF c \in Range(a) THEN Remove(a, c) ELSE a

\* Leaving the metadata entry behind (variant).
DisconnectKeys_Kept(m, c) == m
DisconnectKeys(m, c) == m \ {c}

\* Iterating active_connections itself (variant).
IterList_Live(snapshot, live) == live

\* The list broadcast() iterates: the copy taken at its start.
IterList(snapshot, live) == snapshot

\* send_personal_message sends only when client_state is CONNECTED: from
\* index i on, the first index of the list whose send is issued, or
\* Len(list) + 1 when the loop runs out.
RECURSIVE NextSend(_, _, _)
NextSend(list, i, cs) ==
    IF i > Len(list) THEN Len(list) + 1
    ELSE IF cs[list[i]] = "CONNECTED" THEN i
         ELSE NextSend(list, i + 1, cs)

hubConnVars == <<active_connections, connection_metadata, client_state,
                 sendFails, wpc>>
castVars == <<bpc, connections, idx, connection, got, raised>>

\* connect(): `await websocket.accept()`.
ConnectAccept(c) ==
    /\ wpc[c] = "new"
    /\ client_state' = [client_state EXCEPT ![c] = "CONNECTED"]
    /\ wpc' = [wpc EXCEPT ![c] = "accepted"]
    /\ UNCHANGED <<active_connections, connection_metadata, sendFails,
                   castVars, camVars, beatVars, shutVars>>

\* connect(), lines 36-50: the connection is registered and the welcome
\* message is sent.
ConnectRegister(c) ==
    /\ wpc[c] = "accepted"
    /\ active_connections' = Append(active_connections, c)
    /\ connection_metadata' = connection_metadata \cup {c}
    /\ wpc' = [wpc EXCEPT ![c] = "welcome"]
    /\ UNCHANGED <<client_state, sendFails, castVars, camVars, beatVars, shutVars>>

\* The send of a personal message returns or raises; send_personal_message
\* answers a raise with disconnect(websocket).
PersonalSendEnd(c, from, to) ==
    /\ wpc[c] = from
    /\ IF sendFails[c]
       THEN /\ active_connections' = DisconnectList(active_connections, c)
            /\ connection_metadata' = DisconnectKeys(connection_metadata, c)
       ELSE UNCHANGED <<active_connections, connection_metadata>>
    /\ wpc' = [wpc EXCEPT ![c] = to]
    /\ UNCHANGED <<client_state, sendFails, castVars, camVars, beatVars, shutVars>>

\* The welcome message of connect(), then the initial_status message of the
\* endpoint.
ConnectWelcome(c) == PersonalSendEnd(c, "welcome", "initial")
EndpointInitialStatus(c) == PersonalSendEnd(c, "initial", "serving")

\* websocket.py: receive_text() raises WebSocketDisconnect, the loop breaks
\* and the finally clause calls disconnect(websocket).
EndpointDisconnect(c) ==
    /\ wpc[c] = "serving"
    /\ client_state' = [client_state EXCEPT ![c] = "DISCONNECTED"]
    /\ active_connections' = DisconnectList(active_connections, c)
    /\ connection_metadata' = DisconnectKeys(connection_metadata, c)
    /\ wpc' = [wpc EXCEPT ![c] = "closed"]
    /\ UNCHANGED <<sendFails, castVars, camVars, beatVars, shutVars>>

\* The transport of a registered connection breaks: from now on every
\* send_text() on it raises.
PeerBreak(c) ==
    /\ wpc[c] \in {"welcome", "initial", "serving", "st_sleep", "st_send"}
    /\ ~sendFails[c]
    /\ sendFails' = [sendFails EXCEPT ![c] = TRUE]
    /\ UNCHANGED <<active_connections, connection_metadata, client_state, wpc,
                   castVars, camVars, beatVars, shutVars>>

\* /capture: the channel is closed, receive_text() raises WebSocketDisconnect
\* and the endpoint ends through its finally clause.
EndpointChannelClosed(c) == sendFails[c] /\ EndpointDisconnect(c)

\* /status, lines 179-188: connect(), then the status_update message.
StatusInitial(c) == PersonalSendEnd(c, "initial", "st_sleep")

\* /status, lines 191-200: `await asyncio.sleep(30)` is over and the
\* heartbeat is handed to send_personal_message.
StatusWake(c) ==
    /\ wpc[c] = "st_sleep"
    /\ wpc' = [wpc EXCEPT ![c] = "st_send"]
    /\ UNCHANGED <<active_connections, connection_metadata, client_state,
                   sendFails, castVars, camVars, beatVars, shutVars>>

\* /status: send_personal_message returns; a raise of the send was caught
\* inside it (lines 78-80), so the loop of the endpoint goes on and its
\* `except WebSocketDisconnect` is never entered.
StatusSendEnd(c) == PersonalSendEnd(c, "st_send", "st_sleep")

\* The for loop of broadcast() moves on to index j of `list`: the send to
\* list[j] is awaited, or the loop is over and broadcast() returns.
BroadcastAdvance(b, list, j) ==
    IF j > Len(list)
    THEN /\ bpc' = [bpc EXCEPT ![b] = "done"]
         /\ connection' = [connection EXCEPT ![b] = NoConn]
         /\ idx' = [idx EXCEPT ![b] = j]
    ELSE /\ bpc' = [bpc EXCEPT ![b] = "sending"]
         /\ connection' = [connection EXCEPT ![b] = list[j]]
         /\ idx' = [idx EXCEPT ![b] = j]

\* broadcast(), lines 89-96: nothing to do without connections; otherwise
\* the list is copied and the first send is issued.
BroadcastBegin(b) ==
    /\ bpc[b] = "idle"
    /\ got' = [got EXCEPT ![b] = [c \in Conns |-> 0]]
    /\ raised' = [raised EXCEPT ![b] = {}]
    /\ IF active_connections = <<>>
       THEN /\ connections' = [connections EXCEPT ![b] = <<>>]
            /\ bpc' = [bpc EXCEPT ![b] = "done"]
            /\ idx' = [idx EXCEPT ![b] = 0]
            /\ UNCHANGED connection
       ELSE /\ connections' = [connections EXCEPT ![b] = active_connections]
            /\ LET list == IterList(active_connections, active_connections)
               IN  BroadcastAdvance(b, list, NextSend(list, 1, client_state))
    /\ UNCHANGED <<hubConnVars, camVars, beatVars, shutVars>>

\* The awaited send_text() returns or raises; a raise disconnects that
\* connection; the loop then goes on to the next connection.
BroadcastSendEnd(b) ==
    /\ bpc[b] = "sending"
    /\ LET c == connection[b]
       IN  /\ IF sendFails[c]
              THEN /\ active_connections' = DisconnectList(active_connections, c)
                   /\ connection_metadata' = DisconnectKeys(connection_metadata, c)
                   /\ raised' = [raised EXCEPT ![b] = @ \cup {c}]
                   /\ UNCHANGED got
              ELSE /\ got' = [got EXCEPT ![b][c] = @ + 1]
                   /\ UNCHANGED <<active_connections, connection_metadata, raised>>
           /\ LET list == IterList(connections[b], active_connections')
              IN  BroadcastAdvance(b, list, NextSend(list, idx[b] + 1, client_state))
    /\ UNCHANGED <<client_state, sendFails, wpc, connections, camVars, beatVars, shutVars>>

\* broadcast() has returned to its caller.
BroadcastReturn(b) ==
    /\ bpc[b] = "done"
    /\ bpc' = [bpc EXCEPT ![b] = "idle"]
    /\ connections' = [connections EXCEPT ![b] = <<>>]
    /\ idx' = [idx EXCEPT ![b] = 0]
    /\ got' = [got EXCEPT ![b] = [c \in Conns |-> 0]]
    /\ raised' = [raised EXCEPT ![b] = {}]
    /\ UNCHANGED <<connection, hubConnVars, camVars, beatVars, shutVars>>

\* ------------------------------------------------ heartbeat task

\* `self.heartbeat_task and not self.heartbeat_task.done()`
HeartbeatRunning_Never == FALSE

HeartbeatRunning == heartbeat_task # 0 /\ hbState[heartbeat_task] # "done"

\* The heartbeat loops that have been created and have not finished.
AliveBeats == {t \in BeatTasks : hbState[t] \in {"sleep", "send"}}

hubAllVars == <<hubConnVars, castVars>>

\* start_heartbeat(): a task is created unless one is running; the new
\* task runs up to its `await asyncio.sleep(...)`.
StartHeartbeat ==
    /\ IF HeartbeatRunning
       THEN UNCHANGED <<heartbeat_task, hbState>>
       ELSE \E t \in BeatTasks :
              /\ hbState[t] = "unborn"
              /\ \A u \in BeatTasks : u < t => hbState[u] # "unborn"
              /\ heartbeat_task' = t
              /\ hbState' = [hbState EXCEPT ![t] = "sleep"]
    /\ UNCHANGED <<hbCancel, hbList, hbIdx, hbRemove, stopWait, beat,
                   hubAllVars, camVars, shutVars>>

\* stop_heartbeat(), lines 150-153: the running task is cancelled and
\* awaited; without a running task the call returns at once.
StopHeartbeatBegin ==
    /\ HeartbeatRunning
    /\ stopWait[heartbeat_task] < MaxStopCalls
    /\ hbCancel' = [hbCancel EXCEPT ![heartbeat_task] = TRUE]
    /\ stopWait' = [stopWait EXCEPT ![heartbeat_task] = @ + 1]
    /\ UNCHANGED <<heartbeat_task, hbState, hbList, hbIdx, hbRemove, beat,
                   hubAllVars, camVars, shutVars>>

\* A cancel() that is not awaited (variant).
TaskFinished_NotAwaited(t) == TRUE

\* `await self.heartbeat_task` returns, or raises CancelledError, when the
\* task is done.
TaskFinished(t) == hbState[t] = "done"

\* stop_heartbeat(), lines 153-156: the awaited task has finished.
StopHeartbeatEnd(t) ==
    /\ stopWait[t] > 0
    /\ TaskFinished(t)
    /\ stopWait' = [stopWait EXCEPT ![t] = @ - 1]
    /\ UNCHANGED <<heartbeat_task, hbState, hbCancel, hbList, hbIdx, hbRemove,
                   beat, hubAllVars, camVars, shutVars>>

\* A cancelled task gets CancelledError at the await it is suspended in;
\* neither send_personal_message nor the inner handler catches it, the
\* outer handler breaks out of the loop (lines 188-189).
HeartbeatCancelled(t) ==
    /\ t \in AliveBeats
    /\ hbCancel[t]
    /\ hbState' = [hbState EXCEPT ![t] = "done"]
    /\ hbList' = [hbList EXCEPT ![t] = <<>>]
    /\ hbIdx' = [hbIdx EXCEPT ![t] = 0]
    /\ hbRemove' = [hbRemove EXCEPT ![t] = {}]
    /\ UNCHANGED <<heartbeat_task, hbCancel, stopWait, beat, hubAllVars,
                   camVars, shutVars>>

\* The connections of `list` from index i up to j - 1: the ones the round
\* passes without a send, client_state not being CONNECTED (line 179).
Passed(list, i, j) == {list[k] : k \in {n \in i..(j - 1) : n <= Len(list)}}

\* disconnect() of every connection of a set.
RECURSIVE DisconnectAll(_, _)
DisconnectAll(a, cs) ==
    IF cs = {} THEN a
    ELSE LET c == CHOOSE x \in cs : TRUE
         IN  DisconnectAll(DisconnectList(a, c), cs \ {c})

\* The round of _heartbeat_loop moves on to index j of its list: the send
\* to list[j] is awaited, or the round is over, the connections to remove
\* are disconnected (lines 185-186) and the task sleeps again.  `a` and `m`
\* are the list and the metadata keys as the step has left them so far.
HeartbeatAdvance(t, list, i, j, a, m) ==
    LET remove == hbRemove[t] \cup Passed(list, i, j)
    IN  IF j > Len(list)
        THEN /\ hbState' = [hbState EXCEPT ![t] = "sleep"]
             /\ hbList' = [hbList EXCEPT ![t] = <<>>]
             /\ hbIdx' = [hbIdx EXCEPT ![t] = 0]
             /\ hbRemove' = [hbRemove EXCEPT ![t] = {}]
             /\ active_connections' = DisconnectAll(a, remove)
             /\ connection_metadata' = m \ remove
        ELSE /\ hbState' = [hbState EXCEPT ![t] = "send"]
             /\ hbList' = [hbList EXCEPT ![t] = list]
             /\ hbIdx' = [hbIdx EXCEPT ![t] = j]
             /\ hbRemove' = [hbRemove EXCEPT ![t] = remove]
             /\ active_connections' = a
             /\ connection_metadata' = m

\* _heartbeat_loop, lines 162-173: the sleep is over, the list is copied and
\* the first heartbeat is sent.
HeartbeatWake(t) ==
    /\ hbState[t] = "sleep"
    /\ ~hbCancel[t]
    /\ LET list == active_connections
       IN  HeartbeatAdvance(t, list, 1, NextSend(list, 1, client_state),
                            active_connections, connection_metadata)
    /\ UNCHANGED <<heartbeat_task, hbCancel, stopWait, beat, client_state,
                   sendFails, wpc, castVars, camVars, shutVars>>

\* The awaited send of a heartbeat returns or raises (a raise disconnects
\* that connection); the round goes on.
HeartbeatSendEnd(t) ==
    /\ hbState[t] = "send"
    /\ ~hbCancel[t]
    /\ LET c == hbList[t][hbIdx[t]]
           a == IF sendFails[c] THEN DisconnectList(active_connections, c)
                ELSE active_connections
           m == IF sendFails[c] THEN DisconnectKeys(connection_metadata, c)
                ELSE connection_metadata
       IN  /\ beat' = IF sendFails[c] THEN beat
                      ELSE [beat EXCEPT ![c] = 1 - @]
           /\ HeartbeatAdvance(t, hbList[t], hbIdx[t] + 1,
                               NextSend(hbList[t], hbIdx[t] + 1, client_state),
                               a, m)
    /\ UNCHANGED <<heartbeat_task, hbCancel, stopWait, client_state, sendFails,
                   wpc, castVars, camVars, shutVars>>

\* ------------------------------------------------ hub cleanup

\* The loop of cleanup() moves on to index j of its list: the close of
\* list[j] is awaited, or the loop is over, both collections are cleared
\* and cleanup() returns (lines 198-206).
CleanupAdvance(list, j) ==
    IF j > Len(list)
    THEN /\ hpc' = "done"
         /\ closeList' = <<>>
         /\ closeIdx' = 0
         /\ active_connections' = <<>>
         /\ connection_metadata' = {}
    ELSE /\ hpc' = "closing"
         /\ closeList' = list
         /\ closeIdx' = j
         /\ UNCHANGED <<active_connections, connection_metadata>>

\* cleanup(), line 195: stop_heartbeat() cancels a running task and awaits
\* it; without a running task the closing of the connections begins.
HubCleanupBegin ==
    /\ hpc = "idle"
    /\ IF HeartbeatRunning
       THEN /\ hbCancel' = [hbCancel EXCEPT ![heartbeat_task] = TRUE]
            /\ hpc' = "stopping"
            /\ UNCHANGED <<closeList, closeIdx, active_connections,
                           connection_metadata>>
       ELSE /\ CleanupAdvance(active_connections, 1)
            /\ UNCHANGED hbCancel
    /\ UNCHANGED <<heartbeat_task, hbState, hbList, hbIdx, hbRemove, stopWait,
                   beat, client_state, sendFails, wpc, castVars, camVars>>

\* cleanup(): the awaited heartbeat task is done, stop_heartbeat() returns
\* and the closing of the connections begins.
HubCleanupStopped ==
    /\ hpc = "stopping"
    /\ TaskFinished(heartbeat_task)
    /\ CleanupAdvance(active_connections, 1)
    /\ UNCHANGED <<beatVars, client_state, sendFails, wpc, castVars, camVars>>

\* cleanup(), lines 198-202: `await websocket.close()` returns or raises;
\* either way the loop goes on.  A send on a channel the service has closed
\* raises; client_state changes only when a receive sees the disconnect.
HubCleanupCloseEnd ==
    /\ hpc = "closing"
    /\ sendFails' = [sendFails EXCEPT ![closeList[closeIdx]] = TRUE]
    /\ CleanupAdvance(closeList, closeIdx + 1)
    /\ UNCHANGED <<beatVars, client_state, wpc, castVars, camVars>>

\* ------------------------------------------------------------ time

\* The wall clock moves on between two turns of the event loop: by a second,
\* or by just over the configured maximum capture age.
Tick ==
    /\ LoopFree
    /\ ticks < MaxTicks
    /\ ticks' = ticks + 1
    /\ \E d \in {1, MAX_CAPTURE_AGE_HOURS * SecondsPerHour + 1} :
        clock' = clock + d
    /\ UNCHANGED <<hubVars, cfgVars, report, strmVars, devVars, is_capturing, is_streaming, statVars,
                   storeVars, loop, reqVars, spc>>

\* ------------------------------------------------------------ Spec

\* max_age_hours values passed to cleanup_captures: none of the window, or
\* the configured one.
SweepAges == {0, MAX_CAPTURE_AGE_HOURS}

KnownNames == CacheNames(cache) \cup {f.name : f \in disk} \cup {<<"A", 0>>}

\* The controller: the capture requests, the streams, the self-test and the
\* device life cycle, at one wall-clock instant.
Next ==
    \/ Initialize
    \/ \E r \in Reqs : HandlerStart(r, "A")
    \/ \E r \in Reqs : CaptureEnter(r)
    \/ \E r \in Reqs : CaptureSelect(r)
    \/ \E r \in Reqs : CaptureGrabEnd(r)
    \/ \E r \in Reqs : CaptureStore(r)
    \/ \E r \in Reqs : HandlerResult(r)
    \/ \E r \in Reqs : BackgroundCleanup(r)
    \/ CleanupBegin
    \/ CleanupEnd
    \/ CleanupRaise
    \/ TestBegin
    \/ TestEnd
    \/ StopStreaming
    \/ StreamEnter("s1", 0)
    \/ StreamSetFlag("s1")
    \/ StreamStartBegin("s1")
    \/ StreamStartEnd("s1")
    \/ StreamLoop("s1")
    \/ StreamReadEnd("s1")
    \/ StreamNext("s1")
    \/ StreamClose("s1")

Spec == Init /\ [][Next]_vars

\* The image store over time: captures one after the other, retrievals,
\* sweeps and the clock.  The store is touched by coroutines only, each
\* within one turn of the event loop.
NextStore ==
    \/ Initialize
    \/ \E s \in Samples : HandlerStart("r1", s)
    \/ CaptureEnter("r1")
    \/ CaptureSelect("r1")
    \/ CaptureGrabEnd("r1")
    \/ CaptureStore("r1")
    \/ HandlerResult("r1")
    \/ BackgroundCleanup("r1")
    \/ \E h \in SweepAges : CleanupCaptures(h)
    \/ \E n \in KnownNames : GetImageResource(n)
    \/ Tick

SpecStore == Init /\ [][NextStore]_vars

\* The statistics: captures one after the other, status and statistics
\* queries between them, and the clock.
NextStats ==
    \/ Initialize
    \/ HandlerStart("r1", "A")
    \/ CaptureEnter("r1")
    \/ CaptureSelect("r1")
    \/ CaptureGrabEnd("r1")
    \/ CaptureStore("r1")
    \/ HandlerResult("r1")
    \/ BackgroundCleanup("r1")
    \/ GetStatus
    \/ GetCaptureStats
    \/ Tick

SpecStats == Init /\ [][NextStats]_vars

\* The store as the service runs it: the event loop carries every handler
\* and every scheduled background task to its end; requests and the clock
\* come as they like.  The sweep runs as the background task of a successful
\* capture and when it is asked for; nothing else schedules it.
SpecStoreService ==
    /\ Init
    /\ [][NextStore]_vars
    /\ WF_vars(CaptureEnter("r1"))
    /\ WF_vars(CaptureSelect("r1"))
    /\ WF_vars(CaptureGrabEnd("r1"))
    /\ WF_vars(CaptureStore("r1"))
    /\ WF_vars(HandlerResult("r1"))
    /\ WF_vars(BackgroundCleanup("r1"))

\* Two MJPEG streams without max_fps, the stop signal and the device life
\* cycle.
NextStreams ==
    \/ Initialize
    \/ CleanupBegin
    \/ CleanupEnd
    \/ CleanupRaise
    \/ StopStreaming
    \/ \E s \in Streams : StreamEnter(s, 0)
    \/ \E s \in Streams : StreamSetFlag(s)
    \/ \E s \in Streams : StreamStartBegin(s)
    \/ \E s \in Streams : StreamStartEnd(s)
    \/ \E s \in Streams : StreamLoop(s)
    \/ \E s \in Streams : StreamReadEnd(s)
    \/ \E s \in Streams : StreamNext(s)
    \/ \E s \in Streams : StreamClose(s)

SpecStreams == Init /\ [][NextStreams]_vars

\* Two MJPEG streams and the stop signal, each generator running on in its
\* thread: every step of a generator is weakly fair, and so is the consumer
\* pulling the next frame; requests, stops and closes come as they like.
NextStopping ==
    \/ Initialize
    \/ StopStreaming
    \/ \E s \in Streams : StreamEnter(s, 0)
    \/ \E s \in Streams : StreamSetFlag(s)
    \/ \E s \in Streams : StreamStartBegin(s)
    \/ \E s \in Streams : StreamStartEnd(s)
    \/ \E s \in Streams : StreamLoop(s)
    \/ \E s \in Streams : StreamReadEnd(s)
    \/ \E s \in Streams : StreamNext(s)
    \/ \E s \in Streams : StreamClose(s)

SpecStopping ==
    /\ Init
    /\ [][NextStopping]_vars
    /\ \A s \in Streams : WF_vars(StreamSetFlag(s))
    /\ \A s \in Streams : WF_vars(StreamStartBegin(s))
    /\ \A s \in Streams : WF_vars(StreamStartEnd(s))
    /\ \A s \in Streams : WF_vars(StreamLoop(s))
    /\ \A s \in Streams : WF_vars(StreamReadEnd(s))
    /\ \A s \in Streams : WF_vars(StreamNext(s))

\* One MJPEG stream, with or without max_fps, against time.perf_counter().
NextThrottle ==
    \/ Initialize
    \/ StopStreaming
    \/ \E mi \in {0, FrameInterval} : StreamEnter("s1", mi)
    \/ StreamSetFlag("s1")
    \/ StreamStartBegin("s1")
    \/ StreamStartEnd("s1")
    \/ StreamLoop("s1")
    \/ StreamReadEnd("s1")
    \/ StreamWake("s1")
    \/ StreamNext("s1")
    \/ StreamClose("s1")
    \/ PerfTick

SpecThrottle == Init /\ [][NextThrottle]_vars

\* The connection hub: the WebSocket endpoints and the broadcasts.  The hub
\* reads nothing of the camera configuration, which is held at one value.
InitHub == Init /\ backend = "opencv" /\ persist /\ limit = 1

NextHub ==
    \/ \E c \in Conns : ConnectAccept(c)
    \/ \E c \in Conns : ConnectRegister(c)
    \/ \E c \in Conns : ConnectWelcome(c)
    \/ \E c \in Conns : EndpointInitialStatus(c)
    \/ \E c \in Conns : EndpointDisconnect(c)
    \/ \E c \in Conns : PeerBreak(c)
    \/ \E b \in Casts : BroadcastBegin(b)
    \/ \E b \in Casts : BroadcastSendEnd(b)
    \/ \E b \in Casts : BroadcastReturn(b)

SpecHub == InitHub /\ [][NextHub]_vars

\* The hub with its heartbeat: start_heartbeat() and stop_heartbeat() are
\* called in any order by callers that are not modelled further.
NextBeat ==
    \/ \E c \in BeatConns : ConnectAccept(c)
    \/ \E c \in BeatConns : ConnectRegister(c)
    \/ \E c \in BeatConns : ConnectWelcome(c)
    \/ \E c \in BeatConns : EndpointInitialStatus(c)
    \/ \E c \in BeatConns : EndpointDisconnect(c)
    \/ \E c \in BeatConns : PeerBreak(c)
    \/ StartHeartbeat
    \/ StopHeartbeatBegin
    \/ \E t \in BeatTasks : StopHeartbeatEnd(t)
    \/ \E t \in BeatTasks : HeartbeatCancelled(t)
    \/ \E t \in BeatTasks : HeartbeatWake(t)
    \/ \E t \in BeatTasks : HeartbeatSendEnd(t)

SpecBeat == InitHub /\ [][NextBeat]_vars

\* The service as main.py runs it: lifespan initializes the camera and
\* creates the hub, the endpoints serve the connections.  Nothing in it
\* calls start_heartbeat().  The event loop runs every task that is ready:
\* the steps of the service itself are weakly fair, the steps of the peers
\* (connecting, closing, breaking) are not.
NextService ==
    \/ Initialize
    \/ \E c \in Conns : ConnectAccept(c)
    \/ \E c \in Conns : ConnectRegister(c)
    \/ \E c \in Conns : ConnectWelcome(c)
    \/ \E c \in Conns : EndpointInitialStatus(c)
    \/ \E c \in Conns : EndpointDisconnect(c)
    \/ \E c \in Conns : PeerBreak(c)

SpecService ==
    /\ InitHub
    /\ [][NextService]_vars
    /\ \A c \in Conns : WF_vars(ConnectRegister(c))
    /\ \A c \in Conns : WF_vars(ConnectWelcome(c))
    /\ \A c \in Conns : WF_vars(EndpointInitialStatus(c))

\* start_heartbeat() called before the shutdown has begun.
StartWhileServing == hpc = "idle" /\ StartHeartbeat

\* The hub from its start to its shutdown: heartbeat starts and stops in any
\* order, then cleanup(), which lifespan runs once when the service has
\* stopped serving; nothing starts a heartbeat from then on.  The event loop
\* runs every task that is ready: a cancelled task is resumed with its
\* CancelledError, a coroutine awaiting a finished task is resumed, and an
\* awaited close() ends.
NextShutdown ==
    \/ \E c \in ShutConns : ConnectAccept(c)
    \/ \E c \in ShutConns : ConnectRegister(c)
    \/ \E c \in ShutConns : ConnectWelcome(c)
    \/ \E c \in ShutConns : EndpointInitialStatus(c)
    \/ \E c \in ShutConns : EndpointDisconnect(c)
    \/ \E c \in ShutConns : PeerBreak(c)
    \/ StartWhileServing
    \/ StopHeartbeatBegin
    \/ \E t \in BeatTasks : StopHeartbeatEnd(t)
    \/ \E t \in BeatTasks : HeartbeatCancelled(t)
    \/ \E t \in BeatTasks : HeartbeatWake(t)
    \/ \E t \in BeatTasks : HeartbeatSendEnd(t)
    \/ HubCleanupBegin
    \/ HubCleanupStopped
    \/ HubCleanupCloseEnd

\* The hub with everything that works on its two collections: the endpoints,
\* a broadcast, the heartbeat and cleanup(), which is the one caller of
\* stop_heartbeat().
NextRegistry ==
    \/ \E c \in BeatConns : ConnectAccept(c)
    \/ \E c \in BeatConns : ConnectRegister(c)
    \/ \E c \in BeatConns : ConnectWelcome(c)
    \/ \E c \in BeatConns : EndpointInitialStatus(c)
    \/ \E c \in BeatConns : EndpointDisconnect(c)
    \/ \E c \in BeatConns : PeerBreak(c)
    \/ \E b \in Casts : BroadcastBegin(b)
    \/ \E b \in Casts : BroadcastSendEnd(b)
    \/ \E b \in Casts : BroadcastReturn(b)
    \/ StartWhileServing
    \/ \E t \in BeatTasks : HeartbeatCancelled(t)
    \/ \E t \in BeatTasks : HeartbeatWake(t)
    \/ \E t \in BeatTasks : HeartbeatSendEnd(t)
    \/ HubCleanupBegin
    \/ HubCleanupStopped
    \/ HubCleanupCloseEnd

SpecRegistry == InitHub /\ [][NextRegistry]_vars

SpecShutdown ==
    /\ InitHub
    /\ [][NextShutdown]_vars
    /\ \A t \in BeatTasks : WF_vars(HeartbeatCancelled(t))
    /\ \A t \in BeatTasks : WF_vars(StopHeartbeatEnd(t))
    /\ WF_vars(HubCleanupStopped)
    /\ WF_vars(HubCleanupCloseEnd)

\* The two endpoints and their peers: a channel closes or breaks at any
\* time (PeerBreak).  The event loop runs every handler that is ready: the
\* steps of the handlers are weakly fair, those of the peers are not.
NextChannels ==
    \/ \E c \in BeatConns : ConnectAccept(c)
    \/ \E c \in BeatConns : ConnectRegister(c)
    \/ \E c \in BeatConns : ConnectWelcome(c)
    \/ \E c \in BeatConns : EndpointInitialStatus(c)
    \/ \E c \in BeatConns : EndpointChannelClosed(c)
    \/ \E c \in BeatConns : StatusInitial(c)
    \/ \E c \in BeatConns : StatusWake(c)
    \/ \E c \in BeatConns : StatusSendEnd(c)
    \/ \E c \in BeatConns : PeerBreak(c)

SpecChannels ==
    /\ InitHub
    /\ [][NextChannels]_vars
    /\ \A c \in BeatConns : WF_vars(ConnectRegister(c))
    /\ \A c \in BeatConns : WF_vars(ConnectWelcome(c))
    /\ \A c \in BeatConns : WF_vars(EndpointInitialStatus(c) \/ StatusInitial(c))
    /\ \A c \in BeatConns : WF_vars(EndpointChannelClosed(c))
    /\ \A c \in BeatConns : WF_vars(StatusWake(c))
    /\ \A c \in BeatConns : WF_vars(StatusSendEnd(c))

\* ------------------------------------------------------------ claims

\* A capture_image call between setting is_capturing and clearing it.
InCapture(r) == pc[r] \in {"c_select", "c_grab", "c_store"}

\* C1: at most one capture_image call is between setting the capturing flag
\* and clearing it, whatever the requests, streams, self-tests and cleanups do.
C1_AtMostOneCapture == Cardinality({r \in Reqs : InCapture(r)}) <= 1

\* A capture holds the flag while another request is in flight and the
\* stream reads a frame.
C1_Witness ==
    \E r \in Reqs : \E q \in Reqs \ {r} :
        /\ pc[r] = "c_grab" /\ is_capturing
        /\ pc[q] = "h_progress"
        /\ spc["s1"] = "s_read"

\* C2: a request that arrived while another request was in flight is answered
\* with AlreadyCapturing (a controller that is not initialized still answers
\* NotInitialized); it is never run as a capture of its own.
C2_SecondRequestRejected ==
    \A r \in Reqs :
        (pc[r] = "h_result" /\ req[r].overlapped /\ req[r].result # "NotInitialized")
            => req[r].result = "AlreadyCapturing"

\* C3: a capture_image call that set the capturing flag has cleared it when it
\* returns, on every exit path; a call rejected at the guards leaves the flag
\* as it found it.
C3_FlagClearedOnReturn ==
    [][\A r \in Reqs :
        /\ (InCapture(r) /\ pc'[r] = "h_result") => ~is_capturing'
        /\ (pc[r] = "h_progress" /\ pc'[r] = "h_result")
              => is_capturing' = is_capturing]_vars

\* Two calls have returned, one through the exception handler and one
\* through a failed encode or write, and the flag is clear.
C3_Witness ==
    \E r \in Reqs : \E q \in Reqs \ {r} :
        /\ pc[r] = "h_result" /\ req[r].result = "Exception"
        /\ pc[q] = "h_result" /\ req[q].result \in {"PersistFailed", "EncodeFailed"}
        /\ ~is_capturing

\* The step in which capture_image passes or fails its guards.
EntersCapture(r) == pc[r] = "h_progress" /\ pc'[r] # "h_progress"
Rejected(r) ==
    /\ pc'[r] = "h_result"
    /\ req'[r].result \in {"NotInitialized", "AlreadyCapturing"}
    /\ UNCHANGED <<stats, cache, disk>>

\* C4 (as stated): a capture request issued in any DeviceState other than
\* Ready is answered NotInitialized or AlreadyCapturing, nothing being
\* grabbed, stored or counted.
C4_NotReadyRejected ==
    [][\A r \in Reqs :
        (EntersCapture(r) /\ DeviceState # "Ready") => Rejected(r)]_vars

\* C4 (amended): that holds of a controller that is not initialized or holds
\* no handle, and of one that is capturing; a request issued while Streaming
\* passes the guards and goes on to grab a frame.
C4_RejectedUnlessReadyOrStreaming ==
    [][\A r \in Reqs :
        /\ (EntersCapture(r) /\ DeviceState \in {"Uninitialized", "Capturing"})
              => Rejected(r)
        /\ (EntersCapture(r) /\ DeviceState = "Streaming")
              => (pc'[r] = "c_select" /\ is_capturing')]_vars

\* One request was answered NotInitialized; another, issued while a stream
\* runs, has passed the guards.
C4_Witness ==
    \E r \in Reqs : \E q \in Reqs \ {r} :
        /\ pc[q] = "h_result" /\ req[q].result = "NotInitialized"
        /\ pc[r] = "c_select" /\ is_streaming

\* C5: every capture_image call that returns a failure adds exactly one to
\* the failed-capture counter.
C5_FailureCounted ==
    [][\A r \in Reqs :
        (req[r].result = "none" /\ req'[r].result \in Failures)
            => stats'.failed = stats.failed + 1]_vars

\* C6: in memory mode the cache never holds more entries than its capacity,
\* which is at least 1.
C6_CacheBounded == ~persist => (limit >= 1 /\ Len(cache) <= limit)

\* The cache is full and its last insertion evicted an entry.
C6_Witness == ~persist /\ Len(cache) = limit /\ lastEvicted # {}

\* C7: an insertion that overflows the full cache evicts exactly the entry
\* that has gone longest without being inserted or retrieved.
C7_EvictsLeastRecentlyUsed ==
    [][\A r \in Reqs :
        ( /\ ~persist
          /\ pc[r] = "c_store" /\ req'[r].result = "ok"
          /\ Len(cache) = limit
          /\ <<req[r].sample, clock>> \notin CacheNames(cache) )
        => CacheNames(cache) \ CacheNames(cache') = {Head(useOrder)}]_vars

\* C8: cleanup_captures(h) removes exactly the artifacts older than now - h
\* hours (a file whose own stat() or unlink() raised aside), leaves the
\* others, and returns the number it removed.
C8_SweepExact ==
    [][\A h \in SweepAges :
        CleanupCaptures(h) =>
            /\ persist =>
                 /\ disk' = disk \ (OldFiles(disk, clock, h) \ lastSweep'.failed)
                 /\ lastSweep'.returned = Cardinality(disk \ disk')
            /\ ~persist =>
                 /\ CacheNames(cache') =
                        CacheNames(cache) \ OldEntries(cache, clock, h)
                 /\ lastSweep'.returned = Len(cache) - Len(cache')]_vars

DeviceUsers ==
    {r \in Reqs : pc[r] = "c_grab"}
        \cup {t \in Streams : spc[t] \in {"s_read", "s_starting"}}
        \cup (IF loop \in {"test", "cleanup"} THEN {loop} ELSE {})

\* C10: no two device operations are under way at the same time.
C10_DeviceOpsSerialized == Cardinality(DeviceUsers) <= 1

\* A stream that has reached its frame loop.
InFrameLoop(s) == spc[s] \in {"s_loop", "s_read", "s_sleep", "s_yield"}

\* C11: a stream in its frame loop leaves the generator only after a stop
\* signal (stop_streaming(), or cleanup() clearing the flag or closing the
\* device) or because its own consumer closed it at the yield; another
\* stream ending is no reason.
C11_EndsOnlyOnStopOrClose ==
    [][\A s \in Streams :
        (InFrameLoop(s) /\ spc'[s] = "idle")
            => (s \in stopIssued \/ camera = "none" \/ spc[s] = "s_yield")]_vars

\* C12: with max_fps set, a frame that was obtained less than 1/max_fps after
\* the last emitted frame is never emitted, and a frame is emitted only when
\* at least 1/max_fps has passed since the last emitted one.
C12_EarlyFrameDropped ==
    [][\A s \in Streams :
        (min_interval[s] > 0 /\ spc'[s] = "s_yield" /\ spc[s] # "s_yield")
            => /\ spc[s] # "s_sleep"
               /\ perf' - last_sent[s] >= min_interval[s]]_vars

\* A client served by the /capture endpoint: registered, welcomed, and the
\* endpoint waits for its messages.
Served(c) == wpc[c] = "serving" /\ ~sendFails[c]

\* C13: in the running service, every client that stays connected is
\* eventually sent a further heartbeat, from every point in time on.
C13_HeartbeatEventuallySent ==
    \A c \in Conns : \A p \in {0, 1} :
        (Served(c) /\ beat[c] = p) ~> (beat[c] # p \/ ~Served(c))

\* C17: at most one heartbeat loop is alive, whatever the order of the
\* start_heartbeat and stop_heartbeat calls.
C17_AtMostOneHeartbeat == Cardinality(AliveBeats) <= 1

\* A second task runs after the first was stopped, and start_heartbeat is
\* enabled again while it runs.
C17_Witness ==
    /\ hbState[1] = "done"
    /\ hbState[2] = "send"
    /\ heartbeat_task = 2
\* C14: in either persistence mode an image is returned by
\* get_image_resource and served by GET /image/{filename} exactly when the
\* store retains it.
C14_RetainedIsServed ==
    \A n \in KnownNames :
        /\ n \in Retained <=> ImageResource(n) # "None"
        /\ n \in Retained <=> GetCapturedImage(n) = 200
\* C15: the message reported for a failed capture, in the HTTP error
\* envelope and in the capture_result broadcast, holds no exception text.
C15_NoExceptionTextReported ==
    \A r \in Reqs :
        (pc[r] = "h_result" /\ req[r].result # "ok")
            => ExceptionText \notin Range(FailureMessage(req[r].result))
\* C16: disconnect is idempotent.  From every state of the hub and for every
\* connection, registered or not, a second disconnect changes nothing the
\* first one left, the other connections stay registered, and a connection
\* that is not registered leaves the hub as it is.
C16_DisconnectIdempotent ==
    \A c \in Conns :
        LET a1 == DisconnectList(active_connections, c)
            m1 == DisconnectKeys(connection_metadata, c)
        IN  /\ DisconnectList(a1, c) = a1
            /\ DisconnectKeys(m1, c) = m1
            /\ c \notin Range(a1) /\ c \notin m1
            /\ Range(a1) = Range(active_connections) \ {c}
            /\ m1 = connection_metadata \ {c}
            /\ c \notin Range(active_connections) => a1 = active_connections
            /\ c \notin connection_metadata => m1 = connection_metadata

\* A connection was disconnected when a broadcast to it raised and again
\* when its endpoint ended, while another connection is registered.
C16_Witness ==
    \E c \in Conns : \E b \in Casts :
        /\ c \in raised[b]
        /\ wpc[c] = "closed"
        /\ Range(active_connections) # {}
        /\ Range(active_connections) = connection_metadata
\* C18: whenever initialize() reports failure, on whichever path, the
\* controller is left so that a capture request fails with NotInitialized.
C18_FailedInitializeLeavesUninitialized ==
    [][\A out \in InitOutcomes \ {"ok"} :
        InitializeOutcome(out) => NotInitialized']_vars
\* A step in which cleanup() returns: at once when it holds no handle or
\* the release raised, or when the release has been carried out.
CleanupReturns == (CleanupBegin /\ loop' = NoTask) \/ CleanupEnd \/ CleanupRaise

\* C19: when cleanup() returns, on either backend and also when releasing
\* the device raised, the controller holds no handle, is not initialized,
\* and its capturing and streaming flags are cleared.
C19_CleanupLeavesClosed ==
    [][CleanupReturns =>
        /\ camera' = "none"
        /\ ~is_initialized'
        /\ ~is_capturing'
        /\ ~is_streaming']_vars
\* The tasks with a GrabOne under way: a capture that chose the one-shot
\* grab, and the self-test, which issues GrabOne without a test.
GrabOneUsers ==
    {r \in Reqs : pc[r] = "c_grab" /\ req[r].mode = "grabone"}
        \cup (IF loop = "test" THEN {"test"} ELSE {})

\* C20: on pylon no GrabOne is under way while continuous grabbing is
\* active.
C20_NoGrabOneWhileGrabbing ==
    (backend = "pylon" /\ grabbing) => GrabOneUsers = {}
\* The sends a broadcast has attempted to a connection: those that returned
\* and the one that raised.
Attempts(b, c) == got[b][c] + (IF c \in raised[b] THEN 1 ELSE 0)

\* C21: whatever connects and disconnects between its sends, a broadcast
\* attempts each connection at most once, attempts only connections of the
\* list it copied at its start, has attempted every connection of that list
\* that is still registered when it returns, and registers no connection.
C21_BroadcastUsesSnapshot ==
    [][\A b \in Casts :
        /\ \A c \in Conns :
              /\ Attempts(b, c)' <= 1
              /\ Attempts(b, c)' > 0 => c \in Range(connections'[b])
        /\ bpc'[b] = "sending" => connection'[b] \in Range(connections'[b])
        /\ (bpc[b] = "sending" /\ bpc'[b] = "done") =>
              \A c \in Range(connections[b]) :
                  c \in Range(active_connections') => got'[b][c] = 1
        /\ (BroadcastBegin(b) \/ BroadcastSendEnd(b) \/ BroadcastReturn(b)) =>
              /\ Range(active_connections') \subseteq Range(active_connections)
              /\ connection_metadata' \subseteq connection_metadata]_vars

\* A broadcast over a list of two has returned: the first connection got
\* the message, the second one was disconnected before its turn, and a
\* connection registered meanwhile got nothing.
C21_Witness ==
    \E b \in Casts : \E c \in Conns :
        /\ bpc[b] = "done"
        /\ Len(connections[b]) = 2
        /\ got[b][connections[b][1]] = 1
        /\ connections[b][2] \notin Range(active_connections)
        /\ Attempts(b, connections[b][2]) = 0
        /\ c \notin Range(connections[b])
        /\ c \in Range(active_connections)
        /\ Attempts(b, c) = 0
\* cleanup() of the hub has got past stop_heartbeat().
HubClosing == hpc \in {"closing", "done"}

\* C22: stop_heartbeat() returns only when the heartbeat task is done, and
\* it does return; once cleanup() closes connections no heartbeat task is
\* alive and no heartbeat is sent.
C22_StopAwaitsHeartbeat ==
    /\ [][/\ \A t \in BeatTasks : StopHeartbeatEnd(t) => hbState[t] = "done"
          /\ HubCleanupStopped => hbState[heartbeat_task] = "done"
          /\ beat' # beat => ~HubClosing]_vars
    /\ [](HubClosing => AliveBeats = {})
    /\ \A t \in BeatTasks : (stopWait[t] > 0) ~> (stopWait[t] = 0)
    /\ (hpc = "stopping") ~> HubClosing

\* cleanup() closes a connection that was sent a heartbeat, after its
\* stop_heartbeat() has cancelled the task in the middle of a round.
C22_Witness ==
    /\ hpc = "closing"
    /\ heartbeat_task # 0
    /\ hbCancel[heartbeat_task]
    /\ hbState[heartbeat_task] = "done"
    /\ beat[closeList[closeIdx]] = 1
\* C23: once a client's channel has closed, its connection leaves the
\* active list and the metadata and the endpoint serving it finishes.
C23_ClosedChannelReleased ==
    \A c \in BeatConns :
        sendFails[c] ~> /\ wpc[c] = "closed"
                        /\ c \notin Range(active_connections)
                        /\ c \notin connection_metadata
\* C24: a stream that was running when stop_streaming() was called leaves
\* its generator, whatever else happens meanwhile.
C24_StoppedStreamTerminates ==
    \A s \in Streams : (s \in stopIssued) ~> (spc[s] = "idle")
\* C25: in a disk-mode sweep in which one file's stat() or unlink() raised,
\* every other file older than the cutoff is deleted and counted.
C25_SweepSurvivesFileFailure ==
    [][\A h \in SweepAges :
        (CleanupCaptures(h) /\ persist /\ lastSweep'.failed # {}) =>
            LET others == OldFiles(disk, clock, h) \ lastSweep'.failed
            IN  /\ others \subseteq disk \ disk'
                /\ lastSweep'.returned = Cardinality(others)]_vars
\* The file names of the captures made at the first instant of the clock.
FirstNames == {<<x, 0>> : x \in Samples}

\* The artifacts older than MAX_CAPTURE_AGE_HOURS at the present clock.
Aged ==
    IF persist THEN {f.name : f \in OldFiles(disk, clock, MAX_CAPTURE_AGE_HOURS)}
    ELSE OldEntries(cache, clock, MAX_CAPTURE_AGE_HOURS)

\* C26: every artifact that has exceeded the maximum age is eventually
\* gone from the store, also when no further capture request arrives.
C26_AgedArtifactEvicted ==
    \A n \in FirstNames : (n \in Aged) ~> (n \notin Retained)
\* C27: when capture_image has returned and before the response goes out,
\* the capture_result event of the request is sent to the observers, with
\* the success flag of the response.
C27_ResultEventSent ==
    \A r \in Reqs :
        pc[r] = "h_result" =>
            /\ JsonDumps(ResultMessage(req[r].result)) = "text"
            /\ ResultMessage(req[r].result).success
                   = (ResponseStatus(req[r].result) = 200)
\* C28: a capture that succeeds never stores its image under a file name
\* the store retains, so what is stored under a name is never replaced.
C28_NeverOverwritten ==
    [][\A r \in Reqs :
        (pc[r] = "c_store" /\ req'[r].result = "ok")
            => <<req[r].sample, clock>> \notin Retained]_vars
\* The durations the window has to hold after n successful captures: those
\* of the last MaxWindow of them, oldest first.
RecentDurations(n) ==
    LET k == IF n < MaxWindow THEN n ELSE MaxWindow
    IN [i \in 1..k |-> n - k + i]

\* C29: the window of capture durations never holds more than its limit,
\* and holds the durations of the most recent successful captures in
\* capture order; a status or statistics query leaves the window, the
\* counters and the last-capture timestamp as they are.
C29_WindowHoldsRecentCaptures ==
    /\ [](/\ Len(stats.capture_times) <= MaxWindow
          /\ stats.capture_times = RecentDurations(stats.successful))
    /\ [][report' # report => UNCHANGED <<stats, last_capture_time>>]_vars

\* The window has dropped its oldest duration and a statistics query has
\* reported it since.
C29_Witness ==
    /\ stats.successful > MaxWindow
    /\ Len(stats.capture_times) = MaxWindow
    /\ report.kind = "stats"
    /\ report.capture_times = stats.capture_times
    /\ report.last_capture_time = last_capture_time
\* C30: wherever the hub's coroutines are suspended, the connections of
\* active_connections are the keys of connection_metadata, and no
\* connection is in the list twice.
C30_CollectionsAgree ==
    /\ Range(active_connections) = connection_metadata
    /\ Len(active_connections) = Cardinality(Range(active_connections))

\* cleanup() is suspended on the close of a connection of its list of two,
\* and a broadcast has removed one of them because its send raised.
C30_Witness ==
    /\ hpc = "closing"
    /\ Len(closeList) = 2
    /\ Len(active_connections) = 1
    /\ \E b \in Casts : raised[b] # {}
====
